---- MODULE Spec2Model ----
(***************************************************************************)
(* Invoice extraction pipeline (src/main.py): OCR text -> language-model   *)
(* JSON -> normalize -> SQLite tables "invoices" and "line_items".         *)
(*                                                                         *)
(* Python values are tagged records (field k is the Python type):          *)
(*   None, str (a sequence of one-character strings), int, float (held in  *)
(*   hundredths, field c), list (a sequence of values) and dict (field f,  *)
(*   a function from the keys present to their values).                    *)
(* An operation that may raise returns a record whose field raised tells   *)
(* whether an exception left it.                                           *)
(***************************************************************************)
EXTENDS Integers, Sequences, FiniteSets, TLC

VARIABLES
    pc,          \* position of process_folder, or of the function under check
    nFiles,      \* len(files): the documents extract_file_links returned
    cur,         \* index of the document the loop of process_folder is at
    text,        \* len(text.strip()) of the text run_ocr returned
    data,        \* the value safe_extract_json returned
    df_inv,      \* header frame returned by normalize
    df_items,    \* line-item frame returned by normalize
    invoices,    \* table invoices of invoices.db
    line_items,  \* table line_items of invoices.db
    log,         \* per document: what the driver did for it (observation only)
    seen,        \* columns of the records save_to_db stored (observation only)
    arg,         \* argument of the function under check
    ret          \* what the function under check returned

vars == <<pc, nFiles, cur, text, data, df_inv, df_items, invoices, line_items,
          log, seen, arg, ret>>

---------------------------------------------------------------------------
(* Bounds of the model *)

\* documents in one run of process_folder
MaxFiles == 2
\* length of the generated strings handed to the numeric coercion
MaxStrLen == 3
\* calls of save_to_db in the storage specification
MaxSaves == 3
\* elements of one line_items list handed to normalize
MaxItems == 2

---------------------------------------------------------------------------
(* Python values *)

PyNone == [k |-> "None"]
PyStr(s) == [k |-> "str", s |-> s]
PyInt(n) == [k |-> "int", n |-> n]
PyFloat(c) == [k |-> "float", c |-> c]
PyList(l) == [k |-> "list", l |-> l]
PyDict(f) == [k |-> "dict", f |-> f]

\* the function with empty domain: the items of {}
NoItems == [x \in {} |-> PyNone]
EmptyDict == PyDict(NoItems)

Digits == <<"0", "1", "2", "3", "4", "5", "6", "7", "8", "9">>

IsDigit(ch) == \E d \in 1..10 : Digits[d] = ch

DigitVal(ch) == (CHOOSE d \in 1..10 : Digits[d] = ch) - 1

RECURSIVE IntStr(_)
\* str(n) of an int n >= 0
IntStr(n) == IF n < 10 THEN <<Digits[n + 1]>>
             ELSE IntStr(n \div 10) \o <<Digits[(n % 10) + 1]>>

\* repr of a float c/100 >= 0: the shortest decimal that reads back
FloatStr(c) ==
    LET frac == c % 100
    IN  IntStr(c \div 100) \o <<".">> \o
        (IF frac % 10 = 0 THEN <<Digits[(frac \div 10) + 1]>>
         ELSE <<Digits[(frac \div 10) + 1], Digits[(frac % 10) + 1]>>)

\* str(v); of a list or dict only the opening bracket is kept, which is all
\* float() or sqlite3 ever look at
Str(v) ==
    CASE v.k = "None"  -> <<"N", "o", "n", "e">>
      [] v.k = "str"   -> v.s
      [] v.k = "int"   -> IntStr(v.n)
      [] v.k = "float" -> FloatStr(v.c)
      [] v.k = "list"  -> <<"[", "]">>
      [] v.k = "dict"  -> <<"{", "}">>

\* bool(v): the truth value Python gives v
Truthy(v) ==
    CASE v.k = "None"  -> FALSE
      [] v.k = "str"   -> v.s # <<>>
      [] v.k = "int"   -> v.n # 0
      [] v.k = "float" -> v.c # 0
      [] v.k = "list"  -> v.l # <<>>
      [] v.k = "dict"  -> DOMAIN v.f # {}

\* s.replace(ch, "")
Remove(s, ch) == SelectSeq(s, LAMBDA x : x # ch)

\* the least and the greatest element of a non-empty set of numbers
Min(S) == CHOOSE x \in S : \A y \in S : x <= y
Max(S) == CHOOSE x \in S : \A y \in S : x >= y

\* F applied to the value of e (e is evaluated once)
Bind(e, F(_)) == CHOOSE r \in {F(x) : x \in {e}} : TRUE

\* s.strip()
Strip(s) ==
    LET ns == {p \in 1..Len(s) : s[p] # " "}
    IN  IF ns = {} THEN <<>> ELSE SubSeq(s, Min(ns), Max(ns))

\* the number a sequence of digits writes
DigitsVal(s) ==
    LET val[n \in 0..Len(s)] ==
            IF n = 0 THEN 0 ELSE val[n - 1] * 10 + DigitVal(s[n])
    IN  val[Len(s)]

\* float(s) of a stripped str: an optional sign and a decimal literal with at
\* least one digit and at most one point. Anything else is a ValueError
\* (ok = FALSE). The value is kept in hundredths, so only the first two
\* decimals count. Exponents, underscores, inf and nan are not among the
\* strings of this model.
ParseStripped(s) ==
    LET neg  == s # <<>> /\ Head(s) = "-"
        body == IF s # <<>> /\ Head(s) \in {"+", "-"} THEN Tail(s) ELSE s
        dots == {p \in 1..Len(body) : body[p] = "."}
        good == /\ \A p \in 1..Len(body) : IsDigit(body[p]) \/ body[p] = "."
                /\ Cardinality(dots) <= 1
                /\ \E p \in 1..Len(body) : IsDigit(body[p])
        dot  == IF dots = {} THEN Len(body) + 1 ELSE Min(dots)
        mag  == DigitsVal(SubSeq(body, 1, dot - 1)) * 100
                + DigitsVal(SubSeq(SubSeq(body, dot + 1, Len(body)) \o <<"0", "0">>, 1, 2))
    IN  IF good THEN [ok |-> TRUE, c |-> IF neg THEN 0 - mag ELSE mag]
        ELSE [ok |-> FALSE, c |-> 0]

\* float(s) of a str: surrounding whitespace is ignored
ParseFloat(s0) == Bind(Strip(s0), LAMBDA s : ParseStripped(s))

---------------------------------------------------------------------------
(* clean_fields *)

DateKeys == {"invoice_date", "due_date"}
NumKeys == {"subtotal", "tax", "total"}

\* a date written YYYY-MM-DD
IsIsoDate(s) ==
    /\ Len(s) = 10
    /\ \A p \in 1..10 : IF p \in {5, 8} THEN s[p] = "-" ELSE IsDigit(s[p])

\* the body of the first loop of clean_fields for one key:
\* str(parser.parse(data[key]).date()), None when anything raises.
\* dateutil is modelled on the two kinds of text the model feeds it: an ISO
\* date, which it returns unchanged, and text holding no date, which it rejects.
CleanDate(f, key) ==
    IF key \in DOMAIN f /\ f[key].k = "str" /\ IsIsoDate(f[key].s)
    THEN PyStr(f[key].s)
    ELSE PyNone

\* float(str(data[key]).replace(",", "")), ok = FALSE when it raises
CoerceText(v) == ParseFloat(Remove(Str(v), ","))

\* the body of the second loop of clean_fields for one key: a missing key
\* (KeyError) and text float() rejects (ValueError) give 0.0
CleanNum(f, key) ==
    IF key \notin DOMAIN f THEN PyFloat(0)
    ELSE Bind(CoerceText(f[key]),
              LAMBDA p : IF p.ok THEN PyFloat(p.c) ELSE PyFloat(0))

\* d[key] = v on a dict's items
SetItem(f, key, v) == [x \in DOMAIN f \cup {key} |-> IF x = key THEN v ELSE f[x]]

\* the items of data after both loops of clean_fields: each loop writes its
\* own keys, from the value the key had on entry
CleanItems(f) ==
    [x \in DOMAIN f \cup DateKeys \cup NumKeys |->
        IF x \in DateKeys THEN CleanDate(f, x)
        ELSE IF x \in NumKeys THEN CleanNum(f, x)
        ELSE f[x]]

\* clean_fields(data). On anything but a dict the subscript data[key] raises
\* inside the try, and the handler's own data[key] = None raises again,
\* uncaught.
clean_fields(d) ==
    IF d.k # "dict" THEN [raised |-> TRUE, v |-> d]
    ELSE [raised |-> FALSE, v |-> PyDict(CleanItems(d.f))]

---------------------------------------------------------------------------
(* normalize *)

\* pandas.DataFrame: the set of columns and the rows, each a function from
\* the columns to a value (a missing cell, NaN, is None).
Frame(cols, rows) == [cols |-> cols, rows |-> rows]

\* the sum of the numbers of a sequence
Sum(q) ==
    LET acc[n \in 0..Len(q)] == IF n = 0 THEN 0 ELSE acc[n - 1] + q[n]
    IN  acc[Len(q)]

\* the keys of the dicts of this model
AllKeys == <<"invoice_number", "invoice_date", "due_date", "vendor_name",
             "vendor_address", "customer_name", "customer_address",
             "subtotal", "tax", "total", "currency", "line_items",
             "description", "quantity", "unit_price", "amount", "sku", "id">>

\* len(key)
KeyLen(key) ==
    CASE key = "id" -> 2
      [] key \in {"tax", "sku"} -> 3
      [] key = "total" -> 5
      [] key = "amount" -> 6
      [] key \in {"subtotal", "due_date", "currency", "quantity"} -> 8
      [] key \in {"line_items", "unit_price"} -> 10
      [] key \in {"vendor_name", "description"} -> 11
      [] key = "invoice_date" -> 12
      [] key = "customer_name" -> 13
      [] key \in {"invoice_number", "vendor_address"} -> 14
      [] key = "customer_address" -> 16

RECURSIVE ReprLen(_)
\* len(repr(v)), which is len(str(json_data)) for the dict json_data:
\* brackets, ", " between elements, and "'key': value" for an item
ReprLen(v) ==
    CASE v.k = "None"  -> 4
      [] v.k = "str"   -> Len(v.s) + 2
      [] v.k = "int"   -> Len(IntStr(v.n))
      [] v.k = "float" -> Len(FloatStr(v.c))
      [] v.k = "list"  ->
            Bind([p \in 1..Len(v.l) |-> ReprLen(v.l[p]) + 2],
                 LAMBDA q : IF q = <<>> THEN 2 ELSE Sum(q))
      [] v.k = "dict"  ->
            Bind([p \in 1..Len(AllKeys) |->
                    IF AllKeys[p] \in DOMAIN v.f
                    THEN KeyLen(AllKeys[p]) + 4 + ReprLen(v.f[AllKeys[p]]) + 2
                    ELSE 0],
                 LAMBDA q : IF DOMAIN v.f = {} THEN 2 ELSE Sum(q))

\* min(0.99, len(str(json_data)) / 5000), in hundredths
Confidence(d) ==
    Bind((ReprLen(d) * 100) \div 5000, LAMBDA c : PyFloat(IF c < 99 THEN c ELSE 99))

\* dict.get(key, default)
Get(f, key, default) == IF key \in DOMAIN f THEN f[key] ELSE default

InvoiceCols == {"invoice_number", "invoice_date", "due_date", "vendor_name",
                "vendor_address", "customer_name", "customer_address",
                "subtotal", "tax", "total", "currency", "confidence"}

\* the dict literal normalize builds from the cleaned json_data
InvoiceOf(d) ==
    [c \in InvoiceCols |->
        CASE c \in {"subtotal", "tax", "total"} -> Get(d.f, c, PyInt(0))
          [] c = "confidence" -> Confidence(d)
          [] OTHER -> Get(d.f, c, PyStr(<<>>))]

\* whether "for item in items: item['invoice_number'] = ..." raises: items
\* must be iterable and every element it yields must be a dict (iterating a
\* str yields its characters, iterating a dict its keys)
ItemsLoopRaises(items) ==
    CASE items.k = "list" -> \E p \in 1..Len(items.l) : items.l[p].k # "dict"
      [] items.k = "str"  -> items.s # <<>>
      [] items.k = "dict" -> DOMAIN items.f # {}
      [] OTHER -> TRUE

\* StampedItems with item.setdefault("invoice_number", ...) in place of the
\* assignment: an item keeps a number of its own
StampedItemsKeepOwn(l, number) ==
    [p \in 1..Len(l) |->
        IF "invoice_number" \in DOMAIN l[p].f THEN l[p].f
        ELSE SetItem(l[p].f, "invoice_number", number)]

\* the items after the loop wrote the header's number into each of them
StampedItems(l, number) ==
    [p \in 1..Len(l) |-> SetItem(l[p].f, "invoice_number", number)]

\* pd.DataFrame(list of dicts): the columns are the union of the keys
FrameOfDicts(l) ==
    Bind(UNION {DOMAIN l[p] : p \in 1..Len(l)},
         LAMBDA cols :
            Frame(cols, [p \in 1..Len(l) |-> [c \in cols |-> Get(l[p], c, PyNone)]]))

\* the frames normalize builds once clean_fields returned the dict d
FramesOf(d) ==
    Bind(<<InvoiceOf(d), Get(d.f, "line_items", PyList(<<>>))>>,
         LAMBDA x :
            IF ItemsLoopRaises(x[2])
            THEN [raised |-> TRUE, df_inv |-> Frame({}, <<>>), df_items |-> Frame({}, <<>>)]
            ELSE [raised |-> FALSE,
                  df_inv |-> Frame(InvoiceCols, <<x[1]>>),
                  df_items |->
                      IF Truthy(x[2])
                      THEN Bind(StampedItems(x[2].l, x[1]["invoice_number"]),
                                LAMBDA l : FrameOfDicts(l))
                      ELSE Frame({"invoice_number"}, <<>>)])

\* normalize(json_data): raised, or the frames df_inv and df_items
normalize(json_data) ==
    Bind(clean_fields(IF json_data.k = "list"
                      THEN (IF json_data.l # <<>> THEN json_data.l[1] ELSE EmptyDict)
                      ELSE json_data),
         LAMBDA cf :
            IF cf.raised
            THEN [raised |-> TRUE, df_inv |-> Frame({}, <<>>), df_items |-> Frame({}, <<>>)]
            ELSE FramesOf(cf.v))

---------------------------------------------------------------------------
(* init_db and save_to_db *)

ItemCols == {"invoice_number", "description", "quantity", "unit_price", "amount"}

RealCols == {"subtotal", "tax", "total", "confidence",
             "quantity", "unit_price", "amount"}

\* SQLite's column affinity: a TEXT column stores a number as its text, a
\* REAL column stores an int, or text that reads as a number, as a float
Affinity(col, v) ==
    IF col \in RealCols
    THEN CASE v.k = "int" -> PyFloat(v.n * 100)
           [] v.k = "str" ->
                Bind(ParseFloat(v.s), LAMBDA p : IF p.ok THEN PyFloat(p.c) ELSE v)
           [] OTHER -> v
    ELSE IF v.k \in {"int", "float"} THEN PyStr(Str(v)) ELSE v

\* a table: its columns, the columns declared PRIMARY KEY and its rows
Table(cols, key, rows) == [cols |-> cols, key |-> key, rows |-> rows]

\* InitInvoices with invoice_number declared TEXT, not TEXT PRIMARY KEY
InitInvoicesNoKey == Table(InvoiceCols, {}, <<>>)

\* the tables init_db creates in a fresh invoices.db
InitInvoices == Table(InvoiceCols, {"invoice_number"}, <<>>)
InitLineItems == Table(ItemCols, {}, <<>>)

\* the row SQLite stores for row r of a frame with columns fc
StoredRow(t, fc, r) ==
    [c \in t.cols |-> IF c \in fc THEN Affinity(c, r[c]) ELSE PyNone]

\* UNIQUE constraint of the primary key: no two rows share a non-NULL key
KeyHolds(key, rows) ==
    \A c \in key : \A p, q \in 1..Len(rows) :
        (p # q /\ rows[p][c].k # "None") => rows[p][c] # rows[q][c]

\* whether sqlite3 can bind every cell of the frame: not a list, not a dict
Bindable(df) ==
    \A p \in 1..Len(df.rows) : \A c \in df.cols :
        df.rows[p][c].k \notin {"list", "dict"}

\* DataFrame.to_sql(name, conn, if_exists="append", index=False) on an
\* existing table: one INSERT of all rows in one transaction. It raises, and
\* stores nothing, when the frame has a column the table lacks, when a cell
\* cannot be bound or when the key is violated. A frame without rows
\* executes nothing.
to_sql(t, df) ==
    IF df.rows = <<>> THEN [raised |-> FALSE, t |-> t]
    ELSE IF ~(df.cols \subseteq t.cols) \/ ~Bindable(df) THEN [raised |-> TRUE, t |-> t]
    ELSE Bind(t.rows \o [p \in 1..Len(df.rows) |-> StoredRow(t, df.cols, df.rows[p])],
              LAMBDA rows :
                 IF KeyHolds(t.key, rows)
                 THEN [raised |-> FALSE, t |-> [t EXCEPT !.rows = rows]]
                 ELSE [raised |-> TRUE, t |-> t])

\* AllowedItems without the loop that drops and without the final selection:
\* the frame keeps the columns that are not allowed
AllowedItemsKeepAll(df) ==
    Frame(df.cols \cup ItemCols,
          [p \in 1..Len(df.rows) |->
              [c \in df.cols \cup ItemCols |->
                  IF c \in df.cols THEN df.rows[p][c] ELSE PyNone]])

\* df_items after save_to_db dropped the columns that are not allowed, added
\* the allowed ones it lacked (as None) and selected allowed_cols
AllowedItems(df) ==
    Frame(ItemCols,
          [p \in 1..Len(df.rows) |->
              [c \in ItemCols |-> IF c \in df.cols THEN df.rows[p][c] ELSE PyNone]])

\* the line-item half of save_to_db, reached once the header insert returned
SaveItems(inv, items, dfl) ==
    Bind(to_sql(items, dfl),
         LAMBDA l : [raised |-> l.raised, invoices |-> inv, line_items |-> l.t,
                     triedInv |-> TRUE, triedItems |-> TRUE])

\* save_to_db(df_inv, df_items) on the tables inv and items: the header
\* insert comes first, and when it raises the line-item insert is never
\* reached
save_to_db(inv, items, dfi, dfl) ==
    Bind(<<to_sql(inv, dfi), AllowedItems(dfl)>>,
         LAMBDA h :
            IF h[1].raised
            THEN [raised |-> TRUE, invoices |-> inv, line_items |-> items,
                  triedInv |-> TRUE, triedItems |-> FALSE]
            ELSE SaveItems(h[1].t, items, h[2]))

---------------------------------------------------------------------------
(* run_ocr and safe_extract_json *)

\* run_ocr falls back to easyocr below this many characters
MinOcrLen == 20

\* what an OCR engine does on one file: it raises, or yields text of a length
OcrOutcomes == {[raised |-> TRUE, len |-> 0], [raised |-> FALSE, len |-> 0],
                [raised |-> FALSE, len |-> 25]}

\* run_ocr(path): len(text.strip()) of the text returned, given what
\* pytesseract (t) and easyocr (e) do; any exception gives ""
run_ocr(t, e) ==
    IF t.raised THEN 0
    ELSE IF t.len < MinOcrLen THEN (IF e.raised THEN 0 ELSE e.len)
    ELSE t.len

\* one answer of the language model as safe_extract_json sees it:
\* extract_with_gemini raises, or returns text that json.loads rejects
\* (parses = FALSE), or text that json.loads turns into the value v
Raises == [raises |-> TRUE, parses |-> FALSE, v |-> PyNone]
BadJson == [raises |-> FALSE, parses |-> FALSE, v |-> PyNone]
Json(v) == [raises |-> FALSE, parses |-> TRUE, v |-> v]

\* how an answer ends one try block: "ok", "raise" or "badjson"
Outcome(r) == IF r.raises THEN "raise" ELSE IF r.parses THEN "ok" ELSE "badjson"

\* one try block of safe_extract_json: extract_with_gemini, then json.loads
AttemptFails(r) == r.raises \/ ~r.parses

\* safe_extract_json without the inner try: a second failure leaves it
safe_extract_json_no_inner_try(r1, r2) ==
    IF ~AttemptFails(r1)
    THEN [raised |-> FALSE, v |-> r1.v, calls |-> 1]
    ELSE [raised |-> AttemptFails(r2), v |-> r2.v, calls |-> 2]

\* safe_extract_json(ocr_text), given the model's answers to the first and
\* to the second call; calls counts the calls of extract_with_gemini
safe_extract_json(r1, r2) ==
    IF ~AttemptFails(r1)
    THEN [raised |-> FALSE, v |-> r1.v, calls |-> 1]
    ELSE IF ~AttemptFails(r2)
    THEN [raised |-> FALSE, v |-> r2.v, calls |-> 2]
    ELSE [raised |-> FALSE, v |-> EmptyDict, calls |-> 2]

---------------------------------------------------------------------------
(* Values the language model returns in the runs of process_folder *)

S123 == <<"1", "2", "3">>
Obj1(k1, v1) == PyDict([x \in {k1} |-> v1])
Obj2(k1, v1, k2, v2) == PyDict([x \in {k1, k2} |-> IF x = k1 THEN v1 ELSE v2])
Obj3(k1, v1, k2, v2, k3, v3) ==
    PyDict([x \in {k1, k2, k3} |-> IF x = k1 THEN v1 ELSE IF x = k2 THEN v2 ELSE v3])

\* a line item with a key save_to_db does not allow and a number of its own
ItemSku == Obj3("description", PyStr(<<"x">>), "sku", PyStr(<<"A">>),
                "invoice_number", PyStr(<<"9">>))
ItemPlain == Obj2("description", PyStr(<<"y">>), "amount", PyStr(<<"4", "5">>))
\* a line item whose description is a nested object
ItemNested == Obj1("description", EmptyDict)

LlmValues ==
    { EmptyDict,
      Obj3("invoice_number", PyStr(S123),
           "total", PyStr(<<"$", "4", "5", ".", "0", "0">>),
           "line_items", PyList(<<>>)),
      Obj3("invoice_number", PyInt(123), "total", PyFloat(4500),
           "line_items", PyList(<<ItemSku, ItemPlain>>)),
      Obj2("total", PyStr(<<"1", ",", "2", "0", "0", ".", "5", "0">>),
           "line_items", PyList(<<ItemPlain>>)),
      Obj2("invoice_number", PyStr(<<"7">>), "line_items", PyNone),
      Obj2("invoice_number", PyStr(<<"8">>), "line_items", PyList(<<ItemNested>>)),
      Obj1("invoice_number", EmptyDict),
      Obj1("invoice_number", PyNone),
      PyList(<<Obj1("invoice_number", PyStr(<<"7">>))>>) }

Responses == {Raises, BadJson} \cup {Json(v) : v \in LlmValues}

---------------------------------------------------------------------------
(* process_folder *)

\* a database file without tables
NoTable == Table({}, {}, <<>>)

\* CREATE TABLE IF NOT EXISTS
init_db(t, created) == IF t = NoTable THEN created ELSE t

NoFrame == Frame({}, <<>>)

\* nothing done yet for a document; text = -1: run_ocr has not returned
NoLog == [attempted |-> FALSE, text |-> 0 - 1, calls |-> 0, first |-> "none",
          second |-> "none", extractRaised |-> FALSE,
          triedInv |-> FALSE, triedItems |-> FALSE, invRows |-> 0, itemRows |-> 0]

Idle == /\ arg = PyNone
        /\ ret = PyNone
        /\ seen = [inv |-> {}, items |-> {}]

Init ==
    /\ pc = "start"
    /\ nFiles \in 0..MaxFiles
    /\ cur = 1
    /\ text = 0
    /\ data = PyNone
    /\ df_inv = NoFrame
    /\ df_items = NoFrame
    /\ invoices = NoTable
    /\ line_items = NoTable
    /\ log = [d \in 1..nFiles |-> NoLog]
    /\ Idle

\* where the loop of process_folder goes after the body ran for document cur
LoopNext == IF cur < nFiles THEN "download" ELSE "finished"

\* process_folder up to the loop: init_db(), then the files are listed
Start ==
    /\ pc = "start"
    /\ invoices' = init_db(invoices, InitInvoices)
    /\ line_items' = init_db(line_items, InitLineItems)
    /\ pc' = IF nFiles > 0 THEN "download" ELSE "finished"
    /\ UNCHANGED <<nFiles, cur, text, data, df_inv, df_items, log, seen, arg, ret>>

\* path = download_file(f): it returns, or requests.get / open raise and the
\* exception leaves process_folder
Download ==
    /\ pc = "download"
    /\ \E ok \in BOOLEAN :
          pc' = IF ok THEN "ocr" ELSE "aborted"
    /\ log' = [log EXCEPT ![cur].attempted = TRUE]
    /\ UNCHANGED <<nFiles, cur, text, data, df_inv, df_items, invoices,
                   line_items, seen, arg, ret>>

\* text = run_ocr(path)
RunOcr ==
    /\ pc = "ocr"
    /\ \E t \in OcrOutcomes, e \in OcrOutcomes :
          /\ text' = run_ocr(t, e)
          /\ log' = [log EXCEPT ![cur].text = run_ocr(t, e)]
    /\ pc' = "extract"
    /\ UNCHANGED <<nFiles, cur, data, df_inv, df_items, invoices, line_items,
                   seen, arg, ret>>

\* data = safe_extract_json(text)
SafeExtractJson ==
    /\ pc = "extract"
    /\ \E r1 \in Responses, r2 \in Responses :
          \E x \in {safe_extract_json(r1, r2)} :
              /\ data' = x.v
              /\ pc' = IF x.raised THEN "aborted" ELSE "normalize"
              /\ log' = [log EXCEPT
                    ![cur].calls = x.calls,
                    ![cur].first = Outcome(r1),
                    ![cur].second = IF x.calls = 2 THEN Outcome(r2) ELSE "none",
                    ![cur].extractRaised = x.raised]
    /\ UNCHANGED <<nFiles, cur, text, df_inv, df_items, invoices, line_items,
                   seen, arg, ret>>

\* df_inv, df_items = normalize(data)
Normalize ==
    /\ pc = "normalize"
    /\ \E n \in {normalize(data)} :
           /\ pc' = IF n.raised THEN "aborted" ELSE "save"
           /\ df_inv' = n.df_inv
           /\ df_items' = n.df_items
    /\ UNCHANGED <<nFiles, cur, text, data, invoices, line_items, log, seen,
                   arg, ret>>

\* save_to_db(df_inv, df_items), then the loop moves on
SaveToDb ==
    /\ pc = "save"
    /\ \E s \in {save_to_db(invoices, line_items, df_inv, df_items)} :
           /\ invoices' = s.invoices
           /\ line_items' = s.line_items
           /\ pc' = IF s.raised THEN "aborted" ELSE LoopNext
           /\ cur' = IF s.raised \/ cur >= nFiles THEN cur ELSE cur + 1
           /\ log' = [log EXCEPT
                 ![cur].triedInv = s.triedInv,
                 ![cur].triedItems = s.triedItems,
                 ![cur].invRows = Len(s.invoices.rows) - Len(invoices.rows),
                 ![cur].itemRows = Len(s.line_items.rows) - Len(line_items.rows)]
    /\ UNCHANGED <<nFiles, text, data, df_inv, df_items, seen, arg, ret>>

Next == Start \/ Download \/ RunOcr \/ SafeExtractJson \/ Normalize \/ SaveToDb

Spec == Init /\ [][Next]_vars

---------------------------------------------------------------------------
(* Claims about process_folder, checked under Spec *)

Docs == 1..nFiles

Terminated == pc \in {"finished", "aborted"}

\* C1: when process_folder has terminated, every document of the collection
\* was attempted: no failure on one document keeps the driver from the later
\* ones.
C1_EveryDocumentAttempted ==
    Terminated => \A d \in Docs : log[d].attempted

\* C3: a document whose OCR text is empty is skipped before any call of the
\* language model: extract_with_gemini is not invoked for it and no row of
\* invoices or line_items comes from it.
C3_EmptyOcrSkipsDocument ==
    \A d \in Docs :
        log[d].text = 0 =>
            /\ log[d].calls = 0
            /\ log[d].invRows = 0
            /\ log[d].itemRows = 0

\* C4: a document for which both answers of the language model fail to parse
\* as JSON is skipped: no row of invoices or line_items comes from it.
C4_UnparsedTwiceSkipsDocument ==
    \A d \in Docs :
        (log[d].first = "badjson" /\ log[d].second = "badjson") =>
            /\ log[d].invRows = 0
            /\ log[d].itemRows = 0

\* C9: for every document, the insert into invoices and the insert into
\* line_items were both attempted or neither was.
C9_NoPartialWrites ==
    \A d \in Docs : log[d].triedInv = log[d].triedItems

\* C10: safe_extract_json calls the language model at most twice per
\* document, a second time only when the first attempt raised or did not
\* parse, not at all a second time when the first parsed, and never raises.
C10_BoundedRetry ==
    \A d \in Docs :
        /\ log[d].calls <= 2
        /\ log[d].calls = 2 => log[d].first \in {"raise", "badjson"}
        /\ log[d].first = "ok" => log[d].calls = 1
        /\ ~log[d].extractRaised

\* C10's case: a document whose first answer did not parse got its second
\* call, and the driver went on to normalize
C10_Witness ==
    \E d \in Docs :
        /\ log[d].calls = 2
        /\ log[d].first = "badjson"
        /\ log[d].second = "raise"
        /\ cur = d
        /\ pc = "normalize"

---------------------------------------------------------------------------
(* clean_fields on its own: SpecCoerce *)

\* the state of process_folder, which the checks of single functions leave alone
NoDriver ==
    /\ nFiles = 0
    /\ cur = 0
    /\ text = 0
    /\ data = PyNone
    /\ df_inv = NoFrame
    /\ df_items = NoFrame
    /\ log = [d \in 1..0 |-> NoLog]
    /\ seen = [inv |-> {}, items |-> {}]

\* every sequence over A of length at most n
SeqsUpTo(A, n) == UNION {[1..len -> A] : len \in 0..n}

CoerceAlphabet == {"$", ",", "1", ".", " "}

\* the values a numeric field is given: the examples of the specification,
\* every short string over CoerceAlphabet, None and numbers
CoerceValues ==
    {PyNone, PyInt(12), PyFloat(1250), PyFloat(4500),
     PyStr(<<"$", "1", ",", "2", "0", "0", ".", "5", "0">>),
     PyStr(<<"1", "2", "0", "0", ".", "5", "0">>),
     PyStr(<<"$", "4", "5", ".", "0", "0">>),
     PyStr(<<"n", "u", "l", "l">>), PyStr(<<"N", "o", "n", "e">>),
     PyStr(<<"a", "b", "c">>)}
    \cup {PyStr(str) : str \in SeqsUpTo(CoerceAlphabet, MaxStrLen)}

\* dicts holding at most one numeric field
CoerceArgs == {EmptyDict} \cup {Obj1(key, v) : key \in NumKeys, v \in CoerceValues}

CoerceInit ==
    /\ pc = "call"
    /\ arg \in CoerceArgs
    /\ ret = PyNone
    /\ invoices = NoTable
    /\ line_items = NoTable
    /\ NoDriver

\* data = clean_fields(data)
CleanFieldsCall ==
    /\ pc = "call"
    /\ ret' = clean_fields(arg)
    /\ pc' = "return"
    /\ UNCHANGED <<nFiles, cur, text, data, df_inv, df_items, invoices,
                   line_items, log, seen, arg>>

SpecCoerce == CoerceInit /\ [][CleanFieldsCall]_vars

\* lower case of the letters the model's strings hold
Lower(ch) == IF ch = "N" THEN "n" ELSE ch

\* the coercion C8 describes: absent or null gives 0; otherwise stringify,
\* strip, remove ',' and '$'; 0 when the rest is empty, is none/null in any
\* case or does not parse; the parsed number otherwise
DescribedCoercion(f, key) ==
    IF key \notin DOMAIN f \/ f[key].k = "None" THEN PyFloat(0)
    ELSE Bind(Remove(Remove(Strip(Str(f[key])), ","), "$"),
              LAMBDA t :
                 IF \/ t = <<>>
                    \/ [p \in 1..Len(t) |-> Lower(t[p])]
                          \in {<<"n", "o", "n", "e">>, <<"n", "u", "l", "l">>}
                    \/ ~ParseFloat(t).ok
                 THEN PyFloat(0)
                 ELSE PyFloat(ParseFloat(t).c))

\* C8: clean_fields never raises on a dict, and leaves in subtotal, tax and
\* total the number the described coercion gives ("$1,200.50" gives 1200.50).
C8_CoercionAsDescribed ==
    pc = "return" =>
        /\ ~ret.raised
        /\ \A key \in NumKeys : ret.v.f[key] = DescribedCoercion(arg.f, key)

---------------------------------------------------------------------------
(* normalize on its own: SpecNormalize *)

\* stands for a key the dict does not hold
Absent == [k |-> "absent"]

\* the dict with the given values under the given keys, Absent ones left out
DictOf(keys, vals) ==
    PyDict([x \in {keys[p] : p \in {q \in 1..Len(keys) : vals[q] # Absent}} |->
               vals[CHOOSE p \in 1..Len(keys) : keys[p] = x]])

NumberChoices == {Absent, PyNone, PyStr(S123), PyInt(123), EmptyDict}
TotalChoices == {Absent, PyStr(<<"$", "4", "5", ".", "0", "0">>), PyFloat(1250)}

\* elements of a line_items list: dicts, and None and an int, which are not
ElementChoices == {ItemSku, ItemPlain, EmptyDict, PyNone, PyInt(1)}

ItemsChoices ==
    {Absent, PyNone, PyStr(<<>>), PyStr(<<"x">>), EmptyDict,
     Obj1("id", PyInt(1)), PyInt(3)}
    \cup {PyList(l) : l \in SeqsUpTo(ElementChoices, MaxItems)}

RawDicts ==
    {DictOf(<<"invoice_number", "total", "line_items">>, <<n, t, li>>) :
        n \in NumberChoices, t \in TotalChoices, li \in ItemsChoices}

\* what json.loads hands to normalize: an object, a list holding one object
\* or the empty list
NormalizeArgs ==
    RawDicts \cup {PyList(<<d>>) : d \in RawDicts} \cup {PyList(<<>>)}

NormalizeInit ==
    /\ pc = "call"
    /\ arg \in NormalizeArgs
    /\ ret = PyNone
    /\ invoices = NoTable
    /\ line_items = NoTable
    /\ NoDriver

\* df_inv, df_items = normalize(json_data)
NormalizeCall ==
    /\ pc = "call"
    /\ ret' = normalize(arg)
    /\ pc' = "return"
    /\ UNCHANGED <<nFiles, cur, text, data, df_inv, df_items, invoices,
                   line_items, log, seen, arg>>

SpecNormalize == NormalizeInit /\ [][NormalizeCall]_vars

\* C6: normalize is total: on every JSON value it returns, without raising,
\* exactly one header record and a sequence of line items.
C6_NormalizeTotal ==
    pc = "return" =>
        /\ ~ret.raised
        /\ Len(ret.df_inv.rows) = 1

\* C7: whenever normalize returns, every line item it returns carries the
\* invoice_number of the header it returns.
C7_ItemsCarryHeaderNumber ==
    (pc = "return" /\ ~ret.raised) =>
        \A p \in 1..Len(ret.df_items.rows) :
            /\ "invoice_number" \in ret.df_items.cols
            /\ ret.df_items.rows[p]["invoice_number"]
                  = ret.df_inv.rows[1]["invoice_number"]

\* C7's case: the raw object had no invoice_number, so the header's was
\* defaulted, and a raw line item had a number of its own
C7_Witness ==
    /\ pc = "return"
    /\ ~ret.raised
    /\ arg.k = "dict"
    /\ "invoice_number" \notin DOMAIN arg.f
    /\ Len(ret.df_items.rows) = 2
    /\ \E p \in 1..2 : "invoice_number" \in DOMAIN arg.f["line_items"].l[p].f
    /\ ret.df_inv.rows[1]["invoice_number"] = PyStr(<<>>)

---------------------------------------------------------------------------
(* save_to_db on its own: SpecSave *)

\* a header frame of one row with the given columns and invoice_number
HeaderFrame(cols, number) ==
    Frame(cols, <<[c \in cols |-> IF c = "invoice_number" THEN number ELSE PyNone]>>)

\* header frames: the columns normalize gives, fewer, and one more
InvFrames ==
    {HeaderFrame(cols, n) :
        cols \in {InvoiceCols, {"invoice_number", "total"},
                  InvoiceCols \cup {"po_number"}},
        n \in {PyStr(<<>>), PyStr(S123), PyInt(123), PyNone}}

\* line-item frames: none, one or two rows; with and without a column that
\* is not allowed; one with a cell sqlite3 cannot bind
ItemFrames ==
    {Frame({"invoice_number"}, <<>>),
     FrameOfDicts(<<ItemPlain.f>>),
     FrameOfDicts(<<ItemSku.f>>),
     FrameOfDicts(<<ItemSku.f, ItemPlain.f>>),
     FrameOfDicts(<<ItemNested.f>>)}

\* whether a row of table t already holds the key the frame's first row
\* would be stored under
Duplicate(t, df) ==
    /\ df.rows # <<>>
    /\ "invoice_number" \in df.cols
    /\ df.rows[1]["invoice_number"].k # "None"
    /\ \E p \in 1..Len(t.rows) :
          t.rows[p]["invoice_number"]
             = Affinity("invoice_number", df.rows[1]["invoice_number"])

NoSave == [raised |-> FALSE, dup |-> FALSE, extraInv |-> FALSE,
           extra |-> FALSE, nullKey |-> FALSE,
           invAdded |-> 0, itemsAdded |-> 0]

SaveInit ==
    /\ pc = "save"
    /\ nFiles = 0
    /\ cur = 0
    /\ text = 0
    /\ data = PyNone
    /\ df_inv = NoFrame
    /\ df_items = NoFrame
    /\ invoices = InitInvoices
    /\ line_items = InitLineItems
    /\ log = [d \in 1..0 |-> NoLog]
    /\ seen = [inv |-> {}, items |-> {}]
    /\ arg = PyNone
    /\ ret = NoSave

\* save_to_db(df_inv, df_items) on the tables init_db created; cur counts
\* the calls, ret tells what the call met and did
SaveCall ==
    /\ pc = "save"
    /\ cur < MaxSaves
    /\ \E dfi \in InvFrames, dfl \in ItemFrames :
        \E s \in {save_to_db(invoices, line_items, dfi, dfl)} :
           /\ invoices' = s.invoices
           /\ line_items' = s.line_items
           /\ seen' = [inv |-> seen.inv \cup
                               (IF s.invoices = invoices THEN {} ELSE dfi.cols),
                       items |-> seen.items \cup
                                 (IF s.line_items = line_items THEN {} ELSE dfl.cols)]
           /\ ret' = [raised |-> s.raised,
                      dup |-> Duplicate(invoices, dfi),
                      extraInv |-> ~(dfi.cols \subseteq invoices.cols),
                      extra |-> ~(dfl.cols \subseteq line_items.cols)
                                /\ dfl.rows # <<>> /\ s.triedItems,
                      nullKey |-> dfi.cols \subseteq invoices.cols
                                  /\ dfi.rows[1]["invoice_number"].k = "None",
                      invAdded |-> Len(s.invoices.rows) - Len(invoices.rows),
                      itemsAdded |-> Len(s.line_items.rows) - Len(line_items.rows)]
    /\ cur' = cur + 1
    /\ UNCHANGED <<pc, nFiles, text, data, df_inv, df_items, log, arg>>

SpecSave == SaveInit /\ [][SaveCall]_vars

IsPrefix(a, b) == Len(a) <= Len(b) /\ SubSeq(b, 1, Len(a)) = a

====
